---- MODULE Spec2Model ----
(***************************************************************************)
(* TrickleZip: the incremental compressor (TrickleCompressor over           *)
(* DeflateState over Lz77Encoder / HuffmanCoder / BitWriter), the one-shot *)
(* compress / decompress functions and the placeholder InflateState.       *)
(*                                                                         *)
(* A u8 is an integer in 0..255.  A u32 is the set of the positions of its *)
(* set bits (a subset of 0..31), so that |, &, << and >> are computed bit  *)
(* by bit as the code computes them.  A byte slice is a sequence of u8.    *)
(***************************************************************************)
EXTENDS Integers, Sequences, FiniteSets, TLC

VARIABLES
    config,       \* TrickleCompressor.config
    state,        \* TrickleCompressor.state (a DeflateState)
    call,         \* the last call made by the caller, with what it returned
    lastFail,     \* the call just made, when it failed for lack of output space
    sumConsumed,  \* sum of the consumed values returned since construction/reset
    sumWritten,   \* sum of the written values returned since construction/reset
    fed,          \* concatenation of the slices of the successful calls
    emitted,      \* concatenation of the bytes those calls wrote
    allOk,        \* no call failed since construction/reset
    twin,         \* a compressor constructed at the last reset, given the same calls
    resetFrom,    \* what the session was when reset() was last called, "none" before
    encoder,      \* an Lz77Encoder driven on its own
    passed,       \* concatenation of the inputs passed to encoder.encode since construction
    writer,       \* a BitWriter driven on its own
    partCall      \* the last call made on a component, with what it returned

vars == <<config, state, call, lastFail, sumConsumed, sumWritten, fed, emitted,
          allOk, twin, resetFrom, encoder, passed, writer, partCall>>

-----------------------------------------------------------------------------
(* Bounds of the model *)

MaxSlice == 1       \* longest input slice handed to one call
MaxCap == 2         \* largest caller output buffer
MaxProcessed == 2   \* calls are made while bytes_processed stays within this
MaxTimed == 1       \* compress_timed is called while bytes_processed stays within this
MaxInput == 3       \* longest input handed to a one-shot function
SmallWindow == 1    \* a window smaller than the input fed to a session
RunLength == 10     \* length of the run of identical bytes handed to compress
MaxEncode == 3      \* longest slice passed to Lz77Encoder::encode
MaxPassed == 4      \* encode is called while the bytes passed to it stay within this
MaxStreamBits == 7  \* write_bits is called while the bits written so far stay within this

(* Program constants *)

DefaultWindowSize == 32768
DefaultMaxLazyMatch == 258
DefaultMaxChainLength == 256
LevelBalanced == 6
LevelMax == 9
MatchMarker == 255
U32Bits == 32
ByteBits == 8

-----------------------------------------------------------------------------
(* Input domains *)

InBytes == {65, 255}
FillByte == 0

RECURSIVE SeqsUpTo(_, _)
SeqsUpTo(S, n) ==
    IF n = 0 THEN {<<>>}
    ELSE LET shorter == SeqsUpTo(S, n - 1)
         IN  shorter \cup {Append(s, x) : s \in {t \in shorter : Len(t) = n - 1}, x \in S}

Slices == SeqsUpTo(InBytes, MaxSlice)

Buffer(cap) == [i \in 1..cap |-> FillByte]

Min(a, b) == IF a <= b THEN a ELSE b

-----------------------------------------------------------------------------
(* Results: Result<(usize, usize, bool)> and Result<usize> *)

Ok3(consumed, written, finished) ==
    [consumed |-> consumed, written |-> written, finished |-> finished,
     ok |-> TRUE, err |-> "None"]

Err(e) == [consumed |-> 0, written |-> 0, finished |-> FALSE, ok |-> FALSE, err |-> e]

Ok1(n) == [consumed |-> 0, written |-> n, finished |-> FALSE, ok |-> TRUE, err |-> "None"]

TrickleErrors ==
    {"InsufficientInput", "InsufficientOutput", "InvalidData", "NeedsMoreWork",
     "TimeoutExceeded"}

-----------------------------------------------------------------------------
(* u32 arithmetic on sets of bit positions *)

U32FromByte(b) == {i \in 0..(ByteBits - 1) : (b \div (2 ^ i)) % 2 = 1}

RECURSIVE ByteFromBits(_)
ByteFromBits(bits) ==
    IF bits = {} THEN 0
    ELSE LET i == CHOOSE k \in bits : TRUE
         IN  (2 ^ i) + ByteFromBits(bits \ {i})

Shl(bits, n) == {i + n : i \in bits} \cap (0..(U32Bits - 1))
Shr(bits, n) == {i - n : i \in {k \in bits : k >= n}}
LowMask(n) == 0..(n - 1)

-----------------------------------------------------------------------------
(* let v = ...; body(v): the value is computed once and then used *)

Let(v, Body(_)) == CHOOSE y \in {Body(x) : x \in {v}} : TRUE

-----------------------------------------------------------------------------
(* bitstream.rs: BitWriter *)

BitWriterNew == [bit_buffer |-> {}, bit_count |-> 0, output |-> <<>>]

\* (1 << num_bits) - 1 on u32; a shift by 32 wraps to a shift by 0
ShiftMask(num_bits) == IF num_bits < U32Bits THEN LowMask(num_bits) ELSE {}

\* the drain loop with the test `> 8`, which leaves a complete byte pending
RECURSIVE DrainBytesLeavesFull(_)
DrainBytesLeavesFull(bw) ==
    IF bw.bit_count > ByteBits
    THEN Let([bit_buffer |-> Shr(bw.bit_buffer, ByteBits),
              bit_count  |-> bw.bit_count - ByteBits,
              output     |-> Append(bw.output,
                                    ByteFromBits(bw.bit_buffer \cap LowMask(ByteBits)))],
             LAMBDA rest : DrainBytesLeavesFull(rest))
    ELSE bw

\* while self.bit_count >= 8 { push(bit_buffer & 0xff); bit_buffer >>= 8; bit_count -= 8 }
RECURSIVE DrainBytes(_)
DrainBytes(bw) ==
    IF bw.bit_count >= ByteBits
    THEN Let([bit_buffer |-> Shr(bw.bit_buffer, ByteBits),
              bit_count  |-> bw.bit_count - ByteBits,
              output     |-> Append(bw.output,
                                    ByteFromBits(bw.bit_buffer \cap LowMask(ByteBits)))],
             LAMBDA rest : DrainBytes(rest))
    ELSE bw

WriteBits(bw, value, num_bits) ==
    IF num_bits > U32Bits
    THEN [bw |-> bw, res |-> Err("InvalidData")]
    ELSE Let([bw EXCEPT
                !.bit_buffer = bw.bit_buffer
                                 \cup Shl(value \cap ShiftMask(num_bits), bw.bit_count),
                !.bit_count  = bw.bit_count + num_bits],
             LAMBDA added : [bw |-> DrainBytes(added), res |-> Ok1(0)])

\* 1 << num_bits with num_bits = 32 overflows the shift: a build with overflow checks
\* panics there, a build without them wraps the shift count (the case of ShiftMask)
WriteBitsOutcomes(bw, value, num_bits) ==
    {WriteBits(bw, value, num_bits)}
        \cup (IF num_bits = U32Bits THEN {[bw |-> bw, res |-> Err("Panic")]} ELSE {})

WriteByte(bw, byte) == WriteBits(bw, U32FromByte(byte), ByteBits)

\* the flush that pads out a byte whether or not bits are pending
FlushAlways(bw) ==
    [bw  |-> [bit_buffer |-> {}, bit_count |-> 0,
              output |-> Append(bw.output, ByteFromBits(bw.bit_buffer \cap LowMask(ByteBits)))],
     res |-> Ok1(0)]

Flush(bw) ==
    IF bw.bit_count > 0
    THEN [bw  |-> [bit_buffer |-> {}, bit_count |-> 0,
                   output |-> Append(bw.output,
                                     ByteFromBits(bw.bit_buffer \cap LowMask(ByteBits)))],
          res |-> Ok1(0)]
    ELSE [bw |-> bw, res |-> Ok1(0)]

\* the loop `for &byte in data { self.write_byte(byte)?; }`
RECURSIVE WriteBytes(_, _)
WriteBytes(bw, data) ==
    IF data = <<>> THEN [bw |-> bw, res |-> Ok1(0)]
    ELSE Let(WriteByte(bw, Head(data)),
             LAMBDA w : IF w.res.ok THEN WriteBytes(w.bw, Tail(data)) ELSE w)

\* output[..bytes_written].copy_from_slice(&self.output)
CopyPrefix(output, bytes) ==
    [i \in 1..Len(output) |-> IF i <= Len(bytes) THEN bytes[i] ELSE output[i]]

\* the capacity check with `>=`, which wants a byte to spare
CopyOutNeedsSpare(bw, output, full) ==
    IF Len(bw.output) >= Len(output)
    THEN [bw |-> bw, res |-> Err(full), out |-> output]
    ELSE [bw  |-> [bw EXCEPT !.output = <<>>],
          res |-> Ok1(Len(bw.output)),
          out |-> CopyPrefix(output, bw.output)]

\* the copy made before the capacity check: what fits is copied also on failure
CopyOutPartialOnError(bw, output, full) ==
    IF Len(bw.output) > Len(output)
    THEN [bw |-> bw, res |-> Err(full),
          out |-> CopyPrefix(output, SubSeq(bw.output, 1, Len(output)))]
    ELSE [bw  |-> [bw EXCEPT !.output = <<>>],
          res |-> Ok1(Len(bw.output)),
          out |-> CopyPrefix(output, bw.output)]

\* the end of write_to_buffer: the capacity check and the copy, failing with `full`
CopyOut(bw, output, full) ==
    IF Len(bw.output) > Len(output)
    THEN [bw |-> bw, res |-> Err(full), out |-> output]
    ELSE [bw  |-> [bw EXCEPT !.output = <<>>],
          res |-> Ok1(Len(bw.output)),
          out |-> CopyPrefix(output, bw.output)]

\* the write_to_buffer that reports a full buffer with the wrong error variant
WriteToBufferNeedsMoreWork(bw, data, output) ==
    Let(WriteBytes(bw, data), LAMBDA w :
    Let(Flush(w.bw), LAMBDA f : CopyOut(f.bw, output, "NeedsMoreWork")))

WriteToBuffer(bw, data, output) ==
    Let(WriteBytes(bw, data), LAMBDA w :
        IF ~w.res.ok THEN [bw |-> w.bw, res |-> w.res, out |-> output]
        ELSE Let(Flush(w.bw), LAMBDA f :
                 IF ~f.res.ok THEN [bw |-> f.bw, res |-> f.res, out |-> output]
                 ELSE CopyOut(f.bw, output, "InsufficientOutput")))

BufferInfo(bw) == <<bw.bit_buffer, bw.bit_count>>

-----------------------------------------------------------------------------
(* lz77.rs: Token and Lz77Encoder *)

Literal(byte) == [byte |-> byte, kind |-> "Literal", length |-> 0, distance |-> 0]
Match(length, distance) ==
    [byte |-> 0, kind |-> "Match", length |-> length, distance |-> distance]

Lz77New(window_size, max_lazy_match, max_chain_length) ==
    [window_size |-> window_size, max_lazy_match |-> max_lazy_match,
     max_chain_length |-> max_chain_length, window |-> <<>>, position |-> 0]

\* the window update without the drain
SlideWindowNoEvict(window, input, window_size) == window \o input

\* the window update that drops the newest bytes instead of the oldest
SlideWindowKeepOldest(window, input, window_size) ==
    IF Len(window) + Len(input) > window_size
    THEN SubSeq(window \o input, 1, window_size)
    ELSE window \o input

\* window.extend_from_slice(input), then drain(..len - window_size)
SlideWindow(window, input, window_size) ==
    IF Len(window) + Len(input) > window_size
    THEN SubSeq(window \o input, Len(window) + Len(input) - window_size + 1,
                Len(window) + Len(input))
    ELSE window \o input

\* an encoder that emits a run repeating the window's last byte as one match at
\* distance 1, whatever the configuration
Lz77EncodeRunMatch(lz, input) ==
    [res    |-> Ok1(0),
     lz     |-> [lz EXCEPT !.window = SlideWindow(lz.window, input, lz.window_size)],
     tokens |-> IF /\ Len(input) >= 3
                   /\ lz.window # <<>>
                   /\ \A i \in 1..Len(input) : input[i] = lz.window[Len(lz.window)]
                THEN <<Match(Len(input), 1)>>
                ELSE [i \in 1..Len(input) |-> Literal(input[i])]]

Lz77Encode(lz, input) ==
    [res    |-> Ok1(0),
     lz     |-> [lz EXCEPT !.window = SlideWindow(lz.window, input, lz.window_size)],
     tokens |-> [i \in 1..Len(input) |-> Literal(input[i])]]

-----------------------------------------------------------------------------
(* huffman.rs: HuffmanCoder *)

AsU8(n) == n % 256

EncodeToken(token) ==
    IF token.kind = "Literal" THEN <<token.byte>>
    ELSE <<MatchMarker, AsU8(token.length), AsU8(token.distance)>>

RECURSIVE EncodeTokens(_)
EncodeTokens(tokens) ==
    IF tokens = <<>> THEN <<>>
    ELSE EncodeToken(Head(tokens)) \o EncodeTokens(Tail(tokens))

\* the encoder that escapes a literal equal to the match marker
HuffmanEncodeEscaped(tokens) ==
    [res   |-> Ok1(0),
     bytes |-> EncodeTokens([i \in 1..Len(tokens) |->
                  IF tokens[i].kind = "Literal" /\ tokens[i].byte = MatchMarker
                  THEN Match(1, 0) ELSE tokens[i]])]

HuffmanEncode(tokens) == [res |-> Ok1(0), bytes |-> EncodeTokens(tokens)]

-----------------------------------------------------------------------------
(* deflate.rs: DeflateState *)

DeflateNew(cfg) ==
    [finished        |-> FALSE,
     lz77            |-> Lz77New(cfg.window_size, cfg.max_lazy_match, cfg.max_chain_length),
     bit_writer      |-> BitWriterNew,
     bytes_processed |-> 0,
     bytes_output    |-> 0]

\* the finished flag set before the write: a failed write leaves the session finished
WriteOutFinishesFirst(s1, input, bytes, output, finish) ==
    Let([s1 EXCEPT !.finished = IF finish THEN TRUE ELSE s1.finished], LAMBDA s2 :
    Let(WriteToBuffer(s2.bit_writer, bytes, output), LAMBDA w :
        IF ~w.res.ok
        THEN [res |-> w.res, out |-> w.out, st |-> [s2 EXCEPT !.bit_writer = w.bw]]
        ELSE [res |-> Ok3(Len(input), w.res.written, s2.finished),
              out |-> w.out,
              st  |-> [s2 EXCEPT !.bit_writer = w.bw,
                                 !.bytes_output = s2.bytes_output + w.res.written]]))

\* deflate.rs:41-49: the write to the output and what follows it; s1 is the state
\* after the match finder ran and bytes_processed was advanced
WriteOut(s1, input, bytes, output, finish) ==
    Let(WriteToBuffer(s1.bit_writer, bytes, output), LAMBDA w :
        IF ~w.res.ok
        THEN [res |-> w.res, out |-> w.out, st |-> [s1 EXCEPT !.bit_writer = w.bw]]
        ELSE [res |-> Ok3(Len(input), w.res.written,
                          IF finish THEN TRUE ELSE s1.finished),
              out |-> w.out,
              st  |-> [s1 EXCEPT !.bit_writer = w.bw,
                                 !.bytes_output = s1.bytes_output + w.res.written,
                                 !.finished = IF finish THEN TRUE ELSE s1.finished]])

\* deflate.rs:34-49: compress_chunk after the check of the finished flag
Encode(st, input, output, finish) ==
    Let(Lz77Encode(st.lz77, input), LAMBDA e :
        IF ~e.res.ok THEN [res |-> e.res, out |-> output, st |-> [st EXCEPT !.lz77 = e.lz]]
        ELSE Let([st EXCEPT !.lz77 = e.lz,
                            !.bytes_processed = st.bytes_processed + Len(input)],
                 LAMBDA s1 :
                 Let(HuffmanEncode(e.tokens), LAMBDA h :
                     IF ~h.res.ok THEN [res |-> h.res, out |-> output, st |-> s1]
                     ELSE WriteOut(s1, input, h.bytes, output, finish))))

\* compress_chunk without the early return of a finished session
CompressChunkNoFinishedCheck(st, input, output, finish) ==
    Encode(st, input, output, finish)

\* compress_chunk that reports the session finished after every slice
CompressChunkAlwaysFinished(st, input, output, finish) ==
    IF st.finished THEN [res |-> Ok3(0, 0, TRUE), out |-> output, st |-> st]
    ELSE Let(Encode(st, input, output, finish), LAMBDA r :
             IF r.res.ok THEN [r EXCEPT !.res.finished = TRUE] ELSE r)

CompressChunk(st, input, output, finish) ==
    IF st.finished
    THEN [res |-> Ok3(0, 0, TRUE), out |-> output, st |-> st]
    ELSE Encode(st, input, output, finish)

\* compression_ratio is kept as the pair <<bytes_output, bytes_processed>>, <<0, 1>> for 0.0
Stats(st) ==
    [bytes_processed   |-> st.bytes_processed,
     bytes_output      |-> st.bytes_output,
     compression_ratio |-> IF st.bytes_processed > 0
                           THEN <<st.bytes_output, st.bytes_processed>>
                           ELSE <<0, 1>>]

InflateNew == [finished |-> FALSE]

\* decompress_chunk that reports finished only for an empty input
DecompressChunkNeverFinished(st, input, output) ==
    IF input = <<>>
    THEN [res |-> Ok3(0, 0, TRUE), out |-> output, st |-> [st EXCEPT !.finished = TRUE]]
    ELSE Let(Min(Len(input), Len(output)), LAMBDA copy_len :
             [res |-> Ok3(copy_len, copy_len, FALSE),
              out |-> CopyPrefix(output, SubSeq(input, 1, copy_len)),
              st  |-> st])

DecompressChunk(st, input, output) ==
    IF input = <<>>
    THEN [res |-> Ok3(0, 0, TRUE), out |-> output, st |-> [st EXCEPT !.finished = TRUE]]
    ELSE Let(Min(Len(input), Len(output)), LAMBDA copy_len :
             [res |-> Ok3(copy_len, copy_len, copy_len = Len(input)),
              out |-> CopyPrefix(output, SubSeq(input, 1, copy_len)),
              st  |-> st])

-----------------------------------------------------------------------------
(* lib.rs: CompressionLevel, CompressionConfig, TrickleCompressor *)

CompressionLevelNew(level) == Min(level, LevelMax)

ConfigDefault ==
    [window_size      |-> DefaultWindowSize,
     max_lazy_match   |-> DefaultMaxLazyMatch,
     max_chain_length |-> DefaultMaxChainLength,
     level            |-> LevelBalanced]

WithConfig(cfg) == [config |-> cfg, state |-> DeflateNew(cfg)]

CompressorNew == WithConfig(ConfigDefault)

CompressTrickle(c, input, output, finish) ==
    Let(CompressChunk(c.state, input, output, finish), LAMBDA r :
        [res |-> r.res, out |-> r.out, c |-> [c EXCEPT !.state = r.st]])

\* the loop that tries again after any error, not only after NeedsMoreWork
RECURSIVE TimedLoopRetriesErrors(_, _, _, _, _, _, _)
TimedLoopRetriesErrors(c, input, output, finish, time_limit, clock, attempts) ==
    IF clock = <<>>
    THEN [res |-> Err("Running"), out |-> output, c |-> c, attempts |-> attempts]
    ELSE IF Head(clock) >= time_limit
    THEN [res |-> Err("TimeoutExceeded"), out |-> output, c |-> c, attempts |-> attempts]
    ELSE Let(CompressTrickle(c, input, output, finish), LAMBDA r :
             IF r.res.ok
             THEN [res |-> r.res, out |-> r.out, c |-> r.c, attempts |-> attempts + 1]
             ELSE TimedLoopRetriesErrors(r.c, input, r.out, finish, time_limit,
                                         Tail(clock), attempts + 1))

\* A clock is the sequence of the readings start.elapsed() returns, one per loop
\* iteration; a loop still running when the readings end is reported as "Running".
RECURSIVE TimedLoop(_, _, _, _, _, _, _)
TimedLoop(c, input, output, finish, time_limit, clock, attempts) ==
    IF clock = <<>>
    THEN [res |-> Err("Running"), out |-> output, c |-> c, attempts |-> attempts]
    ELSE IF Head(clock) >= time_limit
    THEN [res |-> Err("TimeoutExceeded"), out |-> output, c |-> c, attempts |-> attempts]
    ELSE Let(CompressTrickle(c, input, output, finish), LAMBDA r :
             IF r.res.ok \/ r.res.err # "NeedsMoreWork"
             THEN [res |-> r.res, out |-> r.out, c |-> r.c, attempts |-> attempts + 1]
             ELSE TimedLoop(r.c, input, r.out, finish, time_limit, Tail(clock),
                            attempts + 1))

\* compress_timed that reads the clock after the slice attempt instead of before it
CompressTimedCheckAfter(c, input, output, finish, time_limit, clock) ==
    Let(CompressTrickle(c, input, output, finish), LAMBDA r :
        IF clock # <<>> /\ Head(clock) >= time_limit
        THEN [res |-> Err("TimeoutExceeded"), out |-> r.out, c |-> r.c, attempts |-> 1]
        ELSE [res |-> r.res, out |-> r.out, c |-> r.c, attempts |-> 1])

CompressTimed(c, input, output, finish, time_limit, clock) ==
    TimedLoop(c, input, output, finish, time_limit, clock, 0)

\* reset that clears the counters and the finished flag but keeps the encoder state
ResetCountersOnly(c) ==
    [c EXCEPT !.state.bytes_processed = 0, !.state.bytes_output = 0,
              !.state.finished = FALSE]

Reset(c) == [c EXCEPT !.state = DeflateNew(c.config)]

CompressorStats(c) == Stats(c.state)

-----------------------------------------------------------------------------
(* lib.rs: one-shot compress and decompress *)

DropFirst(s, n) == SubSeq(s, n + 1, Len(s))

\* output with output[at..] replaced by tail
Splice(output, at, tail) ==
    [i \in 1..Len(output) |-> IF i <= at THEN output[i] ELSE tail[i - at]]

\* lib.rs:172-181 and 199-208: what the loop does with the result r of a slice call;
\* "again" stands for the next iteration
\* the loop body that returns the total before adding what the last call wrote
LoopStepDropsLast(r, output, total_written, calls) ==
    Let(Splice(output, total_written, r.out), LAMBDA out :
        IF ~r.res.ok THEN [res |-> r.res, out |-> out, calls |-> calls + 1, again |-> FALSE]
        ELSE IF r.res.finished
        THEN [res |-> Ok1(total_written), out |-> out, calls |-> calls + 1,
              again |-> FALSE]
        ELSE IF total_written + r.res.written >= Len(output)
        THEN [res |-> Err("InsufficientOutput"), out |-> out, calls |-> calls + 1,
              again |-> FALSE]
        ELSE [res |-> r.res, out |-> out, calls |-> calls + 1, again |-> TRUE])

LoopStep(r, output, total_written, calls) ==
    Let(Splice(output, total_written, r.out), LAMBDA out :
        IF ~r.res.ok THEN [res |-> r.res, out |-> out, calls |-> calls + 1, again |-> FALSE]
        ELSE IF r.res.finished
        THEN [res |-> Ok1(total_written + r.res.written), out |-> out,
              calls |-> calls + 1, again |-> FALSE]
        ELSE IF total_written + r.res.written >= Len(output)
        THEN [res |-> Err("InsufficientOutput"), out |-> out, calls |-> calls + 1,
              again |-> FALSE]
        ELSE [res |-> r.res, out |-> out, calls |-> calls + 1, again |-> TRUE])

Returned(step) == [res |-> step.res, out |-> step.out, calls |-> step.calls]

\* &input[input_offset..] and &mut output[total_written..] panic past the end
SliceInRange(input, input_offset, output, total_written) ==
    input_offset <= Len(input) /\ total_written <= Len(output)

RECURSIVE CompressLoop(_, _, _, _, _, _)
CompressLoop(c, input, output, total_written, input_offset, calls) ==
    IF ~SliceInRange(input, input_offset, output, total_written)
    THEN [res |-> Err("Panic"), out |-> output, calls |-> calls]
    ELSE
    Let(CompressTrickle(c, DropFirst(input, input_offset),
                        DropFirst(output, total_written), TRUE), LAMBDA r :
    Let(LoopStep(r, output, total_written, calls), LAMBDA step :
        IF step.again
        THEN CompressLoop(r.c, input, step.out, total_written + r.res.written,
                          input_offset + r.res.consumed, step.calls)
        ELSE Returned(step)))

Compress(input, output) == CompressLoop(CompressorNew, input, output, 0, 0, 0)

DecompressorNew == [state |-> InflateNew]

DecompressTrickle(d, input, output) ==
    Let(DecompressChunk(d.state, input, output), LAMBDA r :
        [res |-> r.res, out |-> r.out, d |-> [d EXCEPT !.state = r.st]])

RECURSIVE DecompressLoop(_, _, _, _, _, _)
DecompressLoop(d, input, output, total_written, input_offset, calls) ==
    IF ~SliceInRange(input, input_offset, output, total_written)
    THEN [res |-> Err("Panic"), out |-> output, calls |-> calls]
    ELSE
    Let(DecompressTrickle(d, DropFirst(input, input_offset),
                          DropFirst(output, total_written)), LAMBDA r :
    Let(LoopStep(r, output, total_written, calls), LAMBDA step :
        IF step.again
        THEN DecompressLoop(r.d, input, step.out, total_written + r.res.written,
                            input_offset + r.res.consumed, step.calls)
        ELSE Returned(step)))

Decompress(input, output) == DecompressLoop(DecompressorNew, input, output, 0, 0, 0)

-----------------------------------------------------------------------------
(* The caller: one compressor driven through its public entry points, and   *)
(* the one-shot functions.                                                  *)

Configs ==
    {[ConfigDefault EXCEPT !.window_size = w] : w \in {0, SmallWindow, DefaultWindowSize}}

TimeLimits == {0, 1}

\* non-decreasing readings of start.elapsed(), one per loop iteration
Clocks == {<<0, 0>>, <<0, 1>>, <<1, 1>>}

\* runs of one repeated byte
Runs == {[i \in 1..RunLength |-> b] : b \in InBytes}

Inputs == SeqsUpTo(InBytes, MaxInput) \cup Runs

\* sizes of the output buffers handed to the one-shot functions
Caps == 0..(MaxInput + 1) \cup {RunLength, 2 * RunLength}

Compressor == [config |-> config, state |-> state]

NoFail == [input |-> <<>>, finish |-> FALSE, failed |-> FALSE, pre |-> CompressorNew]

NoCall ==
    [cap |-> 0, res |-> Ok1(0), out |-> <<>>, input |-> <<>>, finish |-> FALSE,
     time_limit |-> 0, clock |-> <<>>, attempts |-> 0, op |-> "new",
     active |-> TRUE, twinRes |-> Ok1(0), twinOut |-> <<>>, orig |-> <<>>,
     chained |-> FALSE]

\* no call made on a component yet
NoPartCall == [op |-> "new"]

Parts == <<encoder, passed, writer, partCall>>

PartsInit ==
    /\ encoder = WithConfig(ConfigDefault).state.lz77
    /\ passed = <<>>
    /\ writer = BitWriterNew
    /\ partCall = NoPartCall

SessionInit ==
    /\ config \in Configs
    /\ state = WithConfig(config).state
    /\ call = NoCall
    /\ lastFail = NoFail
    /\ sumConsumed = 0
    /\ sumWritten = 0
    /\ fed = <<>>
    /\ emitted = <<>>
    /\ allOk = TRUE
    /\ twin = WithConfig(config)
    /\ resetFrom = "none"

Init == SessionInit /\ PartsInit

\* what every call on the session records: r is the call's outcome on the
\* compressor, t its outcome on the twin
Record(op, input, cap, finish, time_limit, clock, r, t) ==
    /\ config' = r.c.config
    /\ state' = r.c.state
    /\ twin' = t.c
    /\ call' = [NoCall EXCEPT !.op = op, !.active = ~state.finished, !.input = input,
                   !.cap = cap, !.finish = finish, !.time_limit = time_limit,
                   !.attempts = r.attempts, !.res = r.res, !.out = r.out,
                   !.twinRes = t.res, !.twinOut = t.out, !.clock = clock]
    /\ lastFail' = IF ~r.res.ok /\ r.res.err = "InsufficientOutput"
                   THEN [input |-> input, finish |-> finish, failed |-> TRUE,
                         pre |-> Compressor]
                   ELSE NoFail
    /\ sumConsumed' = IF r.res.ok THEN sumConsumed + r.res.consumed ELSE sumConsumed
    /\ sumWritten' = IF r.res.ok THEN sumWritten + r.res.written ELSE sumWritten
    /\ fed' = IF r.res.ok THEN fed \o SubSeq(input, 1, r.res.consumed) ELSE fed
    /\ emitted' = IF r.res.ok THEN emitted \o SubSeq(r.out, 1, r.res.written) ELSE emitted
    /\ allOk' = (allOk /\ r.res.ok)
    /\ UNCHANGED resetFrom
    /\ UNCHANGED Parts

Once(r) == [res |-> r.res, out |-> r.out, c |-> r.c, attempts |-> 1]

CompressTrickleCall ==
    \E input \in Slices, cap \in 0..MaxCap, finish \in BOOLEAN :
        /\ state.bytes_processed + Len(input) <= MaxProcessed
        /\ \E r \in {Once(CompressTrickle(Compressor, input, Buffer(cap), finish))},
              t \in {Once(CompressTrickle(twin, input, Buffer(cap), finish))} :
               Record("compress_trickle", input, cap, finish, 0, <<>>, r, t)

CompressTimedCall ==
    \E input \in Slices, cap \in 0..MaxCap, finish \in BOOLEAN,
       time_limit \in TimeLimits, clock \in Clocks :
        /\ state.bytes_processed + Len(input) <= MaxTimed
        /\ \E r \in {CompressTimed(Compressor, input, Buffer(cap), finish, time_limit,
                                    clock)},
              t \in {CompressTimed(twin, input, Buffer(cap), finish, time_limit, clock)} :
               Record("compress_timed", input, cap, finish, time_limit, clock, r, t)

ResetCall ==
    /\ \E c \in {Reset(Compressor)} : config' = c.config /\ state' = c.state
    /\ twin' = WithConfig(config)
    /\ call' = [NoCall EXCEPT !.op = "reset", !.active = ~state.finished]
    /\ lastFail' = NoFail
    /\ sumConsumed' = 0
    /\ sumWritten' = 0
    /\ fed' = <<>>
    /\ emitted' = <<>>
    /\ allOk' = TRUE
    /\ resetFrom' = IF state.bit_writer.output # <<>> THEN "pending"
                    ELSE IF state.finished THEN "finished" ELSE "active"
    /\ UNCHANGED Parts

Next ==
    \/ CompressTrickleCall
    \/ ResetCall

Spec == Init /\ [][Next]_vars

\* the same session driven through the time-bounded entry point as well, with the
\* default configuration
TimedInit == Init /\ config = ConfigDefault

TimedNext ==
    \/ CompressTimedCall
    \/ CompressTrickleCall

TimedSpec == TimedInit /\ [][TimedNext]_vars

-----------------------------------------------------------------------------
(* The one-shot functions, each call on inputs of its own *)

Session == <<config, state, lastFail, sumConsumed, sumWritten, fed, emitted, allOk,
             twin, resetFrom>>

CompressCall ==
    \E input \in Inputs, cap \in Caps :
        \E r \in {Compress(input, Buffer(cap))} :
            /\ call' = [NoCall EXCEPT !.op = "compress", !.input = input, !.cap = cap,
                           !.finish = TRUE, !.attempts = r.calls, !.res = r.res,
                           !.out = r.out]
            /\ UNCHANGED <<Session, Parts>>

DecompressCall ==
    \E input \in Inputs, cap \in Caps :
        \E r \in {Decompress(input, Buffer(cap))} :
            /\ call' = [NoCall EXCEPT !.op = "decompress", !.input = input, !.cap = cap,
                           !.attempts = r.calls, !.res = r.res, !.out = r.out]
            /\ UNCHANGED <<Session, Parts>>

\* decompress given the bytes the compress call just made wrote
DecompressCompressed ==
    \E cap \in Caps :
        /\ call.op = "compress"
        /\ call.res.ok
        /\ \E input \in {SubSeq(call.out, 1, call.res.written)} :
           \E r \in {Decompress(input, Buffer(cap))} :
               call' = [NoCall EXCEPT !.op = "decompress", !.input = input, !.cap = cap,
                           !.attempts = r.calls, !.res = r.res, !.out = r.out,
                           !.chained = TRUE, !.orig = call.input]
        /\ UNCHANGED <<Session, Parts>>

OneShotNext ==
    \/ CompressCall
    \/ DecompressCall
    \/ DecompressCompressed

\* compress constructs its compressor with the default configuration
OneShotSpec == TimedInit /\ [][OneShotNext]_vars

-----------------------------------------------------------------------------
(* The match finder driven on its own: Lz77Encoder::new, then encode calls *)

EncoderWindows == {0, SmallWindow, SmallWindow + 1, DefaultWindowSize}

EncoderChains == {0, DefaultMaxChainLength}

EncoderInit ==
    /\ SessionInit
    /\ config = ConfigDefault
    /\ encoder \in {Lz77New(w, DefaultMaxLazyMatch, c) : w \in EncoderWindows,
                                                         c \in EncoderChains}
    /\ passed = <<>>
    /\ writer = BitWriterNew
    /\ partCall = NoPartCall

Lz77EncodeCall ==
    \E input \in SeqsUpTo(InBytes, MaxEncode) :
        /\ Len(passed) + Len(input) <= MaxPassed
        /\ \E r \in {Lz77Encode(encoder, input)} :
               /\ encoder' = r.lz
               /\ partCall' = [res |-> r.res, input |-> input, tokens |-> r.tokens,
                               op |-> "encode"]
        /\ passed' = passed \o input
        /\ UNCHANGED <<call, Session, writer>>

EncoderNext == Lz77EncodeCall

EncoderSpec == EncoderInit /\ [][EncoderNext]_vars

-----------------------------------------------------------------------------
(* The entropy coder driven on its own: HuffmanCoder::encode on single tokens *)

LiteralBytes == {0, 3, 65, MatchMarker}

MatchLengths == {3, 4, DefaultMaxLazyMatch}

MatchDistances == {1, 2, 257, DefaultWindowSize}

Tokens ==
    {Literal(b) : b \in LiteralBytes}
        \cup {Match(l, d) : l \in MatchLengths, d \in MatchDistances}

\* encode(&[a]) and encode(&[b]): the codes of two symbols
HuffmanEncodeCall ==
    \E a \in Tokens, b \in Tokens :
        /\ \E ra \in {HuffmanEncode(<<a>>)}, rb \in {HuffmanEncode(<<b>>)} :
               partCall' = [a |-> a, b |-> b, op |-> "huffman",
                            okA |-> ra.res.ok, codeA |-> ra.bytes,
                            okB |-> rb.res.ok, codeB |-> rb.bytes]
        /\ UNCHANGED <<call, Session, encoder, passed, writer>>

CoderNext == HuffmanEncodeCall

CoderSpec == TimedInit /\ [][CoderNext]_vars

-----------------------------------------------------------------------------
(* The bit packer driven on its own: BitWriter::new, then calls of its methods *)

Values == {{0, 2}, 0..(U32Bits - 1)}

Widths == {0, 1, 3, ByteBits, 26, U32Bits, U32Bits + 1}

WriteBitsCall ==
    \E value \in Values, num_bits \in Widths :
        /\ writer.bit_count + ByteBits * Len(writer.output) <= MaxStreamBits
        /\ \E r \in WriteBitsOutcomes(writer, value, num_bits) :
               /\ writer' = r.bw
               /\ partCall' = [num_bits |-> num_bits, value |-> value, res |-> r.res,
                               pre |-> writer, op |-> "write_bits"]
        /\ UNCHANGED <<call, Session, encoder, passed>>

WriteByteCall ==
    \E byte \in InBytes :
        /\ writer.bit_count + ByteBits * Len(writer.output) <= MaxStreamBits
        /\ \E r \in {WriteByte(writer, byte)} :
               /\ writer' = r.bw
               /\ partCall' = [num_bits |-> ByteBits, value |-> U32FromByte(byte),
                               res |-> r.res, pre |-> writer,
                               op |-> "write_byte"]
        /\ UNCHANGED <<call, Session, encoder, passed>>

FlushCall ==
    /\ \E r \in {Flush(writer)} :
           /\ writer' = r.bw
           /\ partCall' = [num_bits |-> 0, value |-> {}, res |-> r.res, pre |-> writer,
                           op |-> "flush"]
    /\ UNCHANGED <<call, Session, encoder, passed>>

\* write_to_buffer is called while the queue fits the largest caller buffer
WriteToBufferCall ==
    \E data \in Slices, cap \in 0..MaxCap :
        /\ Len(writer.output) <= MaxCap
        /\ \E r \in {WriteToBuffer(writer, data, Buffer(cap))} :
               /\ writer' = r.bw
               /\ partCall' = [num_bits |-> 0, value |-> {}, res |-> r.res,
                               pre |-> writer, op |-> "write_to_buffer"]
        /\ UNCHANGED <<call, Session, encoder, passed>>

BitsNext ==
    \/ WriteBitsCall
    \/ WriteByteCall
    \/ FlushCall
    \/ WriteToBufferCall

BitsSpec == TimedInit /\ [][BitsNext]_vars

-----------------------------------------------------------------------------
(* Properties *)

\* one compress_trickle call on a fresh compressor with the whole input, finish=true,
\* and an output buffer with room to spare
WholeCall(input) ==
    CompressTrickle(WithConfig(config), input, Buffer(2 * Len(input) + 2), TRUE)

Written(r) == SubSeq(r.out, 1, r.res.written)

\* C1: chunking determinism. When every call since construction (or reset) succeeded
\* and the last slice finished the session, the bytes written by the successive calls,
\* concatenated, are the bytes one call with the whole input and finish=true writes.
C1_ChunkingDeterminism ==
    (allOk /\ state.finished) =>
        /\ WholeCall(fed).res.ok
        /\ emitted = Written(WholeCall(fed))

\* a session finished by its second or later successful slice, both non-empty
C1_Witness ==
    /\ allOk
    /\ state.finished
    /\ call.op = "compress_trickle"
    /\ call.active
    /\ call.finish
    /\ call.input # <<>>
    /\ Len(fed) > Len(call.input)
    /\ emitted = fed

\* C2: a compress_trickle call on an Active session with non-empty input and an
\* output buffer of size 0 returns InsufficientOutput and leaves bytes_processed and
\* bytes_output as they were.
C2_CapacityErrorKeepsStats ==
    [][(/\ call'.op = "compress_trickle"
        /\ ~state.finished
        /\ call'.input # <<>>
        /\ call'.cap = 0)
       => (/\ call'.res = Err("InsufficientOutput")
           /\ Stats(state').bytes_processed = Stats(state).bytes_processed
           /\ Stats(state').bytes_output = Stats(state).bytes_output)]_vars

\* what the failed call would have done, had it been given the buffer of the retry
FirstCallWith(cap) ==
    CompressTrickle(lastFail.pre, lastFail.input, Buffer(cap), lastFail.finish)

\* C3: after a compress_trickle call failed with InsufficientOutput, the same call
\* made again with a buffer large enough for that slice succeeds, writes exactly the
\* bytes the first call would have written into that buffer, and leaves the window
\* holding the slice once.
C3_RetryAfterCapacityError ==
    [][(/\ lastFail.failed
        /\ call'.op = "compress_trickle"
        /\ call'.input = lastFail.input
        /\ call'.finish = lastFail.finish
        /\ FirstCallWith(call'.cap).res.ok)
       => (/\ call'.res = FirstCallWith(call'.cap).res
           /\ call'.out = FirstCallWith(call'.cap).out
           /\ state'.lz77.window = FirstCallWith(call'.cap).c.state.lz77.window)]_vars

\* C4: on a Finished session every compress_trickle call returns Ok((0, 0, true)) and
\* leaves the session and the caller's buffer as they were; only reset ends Finished.
C4_FinishedIsNoOp ==
    [][/\ (state.finished /\ call'.op = "compress_trickle")
            => (/\ call'.res = Ok3(0, 0, TRUE)
                /\ state' = state
                /\ config' = config
                /\ call'.out = Buffer(call'.cap))
       /\ (state.finished /\ ~state'.finished) => call'.op = "reset"]_vars

\* a call with input, finish=false and an empty buffer made on a Finished session
C4_Witness ==
    /\ call.op = "compress_trickle"
    /\ ~call.active
    /\ call.input # <<>>
    /\ call.cap = 0
    /\ ~call.finish
    /\ call.res.ok
    /\ state.bytes_processed > 0

\* C5: round trip. When compress succeeded on an input and decompress is given the
\* bytes it wrote and a buffer that holds the input, decompress returns the input's
\* length and the buffer starts with the input's bytes.
C5_RoundTrip ==
    (call.op = "decompress" /\ call.chained /\ call.cap >= Len(call.orig)) =>
        /\ call.res.ok
        /\ call.res.written = Len(call.orig)
        /\ SubSeq(call.out, 1, call.res.written) = call.orig

\* a round trip of an input of two or more bytes that holds the byte 0xff
C5_Witness ==
    /\ call.op = "decompress"
    /\ call.chained
    /\ call.res.ok
    /\ Len(call.orig) >= 2
    /\ \E i \in 1..Len(call.orig) : call.orig[i] = MatchMarker
    /\ call.cap >= Len(call.orig)

\* C6: a compress_timed call that returns TimeoutExceeded, as every call with a time
\* limit of 0 does, leaves the session, the configuration and the caller's buffer as
\* they were before the call.
C6_TimeoutKeepsSession ==
    [][/\ (call'.op = "compress_timed" /\ call'.time_limit = 0)
            => call'.res = Err("TimeoutExceeded")
       /\ (call'.op = "compress_timed" /\ call'.res = Err("TimeoutExceeded"))
            => (/\ state' = state
                /\ config' = config
                /\ call'.out = Buffer(call'.cap))]_vars

\* a compress_timed call with input and a time limit of 0 on an Active session
C6_Witness ==
    /\ call.op = "compress_timed"
    /\ call.active
    /\ call.time_limit = 0
    /\ call.input # <<>>
    /\ call.cap > 0
    /\ call.res = Err("TimeoutExceeded")

\* C7: a compress_trickle call that returns Ok on an Active session returns the length
\* of the slice as consumed and the finish flag as finished, and written > 0 when the
\* slice is not empty.
C7_SuccessfulSliceResult ==
    (call.op = "compress_trickle" /\ call.active /\ call.res.ok) =>
        /\ call.res.consumed = Len(call.input)
        /\ call.res.finished = call.finish
        /\ (call.input # <<>> => call.res.written > 0)
        /\ (call.input = <<>> /\ call.finish) =>
               (call.res.consumed = 0 /\ call.res.finished)

\* a successful non-finishing slice with input on an Active session
C7_Witness ==
    /\ call.op = "compress_trickle"
    /\ call.active
    /\ call.res.ok
    /\ call.input # <<>>
    /\ ~call.finish
    /\ call.res.written > 0

\* C8: stats().bytes_processed is the sum of the consumed values the successful calls
\* returned since construction or the last reset, and stats().bytes_output the sum of
\* the written values.
C8_CountersMatchReturned ==
    /\ Stats(state).bytes_processed = sumConsumed
    /\ Stats(state).bytes_output = sumWritten

\* C9: once reset() has been called the compressor is what a compressor constructed
\* at that moment with the same configuration and given the same calls is, and every
\* call returns and writes what it does on that one; right after reset the counters
\* are 0 and the session is Active.
C9_ResetStartsFresh ==
    /\ resetFrom # "none" =>
           (/\ Compressor = twin
            /\ call.res = call.twinRes
            /\ call.out = call.twinOut)
    /\ call.op = "reset" =>
           (/\ Stats(state).bytes_processed = 0
            /\ Stats(state).bytes_output = 0
            /\ ~state.finished
            /\ state = DeflateNew(config))

\* a successful slice with input, after a reset of a session that had output pending
C9_Witness ==
    /\ resetFrom = "pending"
    /\ call.op = "compress_trickle"
    /\ call.res.ok
    /\ call.input # <<>>
    /\ call.res.written > 0

\* C10: no call of compress_trickle, compress_timed or compress returns NeedsMoreWork.
C10_NeedsMoreWorkNotSurfaced ==
    /\ call.op \in {"compress_trickle", "compress_timed"} => call.res.err # "NeedsMoreWork"
    /\ \A input \in Slices, cap \in 0..MaxCap :
           Compress(input, Buffer(cap)).res.err # "NeedsMoreWork"

\* a compress_timed call that made its slice attempt and returned that attempt's error
C10_Witness ==
    /\ call.op = "compress_timed"
    /\ call.attempts = 1
    /\ ~call.res.ok
    /\ call.res.err = "InsufficientOutput"

\* C11: repetitive input compresses. compress with the default configuration, given a
\* run of 10 identical bytes and a buffer that holds them, makes the match finder emit
\* at least one Match token and writes fewer bytes than the run is long.
C11_RunCompresses ==
    (call.op = "compress" /\ call.input \in Runs /\ call.cap >= Len(call.input)) =>
        /\ \E i \in 1..Len(call.input) :
               Lz77Encode(CompressorNew.state.lz77, call.input).tokens[i].kind = "Match"
        /\ call.res.ok
        /\ call.res.written < Len(call.input)

\* C12: every compression unit ends with an end marker, also the unit of an empty
\* token batch: compress_trickle with empty input and finish=true on a fresh session,
\* given a buffer with room, succeeds and writes at least one byte.
C12_EndMarkerWritten ==
    [][(/\ state = DeflateNew(config)
        /\ call'.op = "compress_trickle"
        /\ call'.input = <<>>
        /\ call'.finish
        /\ call'.cap > 0)
       => (/\ call'.res.ok
           /\ call'.res.written > 0
           /\ HuffmanEncode(<<>>).bytes # <<>>)]_vars

\* C13: one-shot compress returns after a bounded number of slice calls, without
\* slicing outside input or output, either Ok(n) with n <= output.len() and n > 0 for a
\* non-empty input, or Err(InsufficientOutput) with a buffer too small for the input.
C13_CompressReturns ==
    call.op = "compress" =>
        /\ call.attempts <= Len(call.input) + 1
        /\ call.res.ok =>
               (/\ call.res.written <= call.cap
                /\ call.input # <<>> => call.res.written > 0)
        /\ ~call.res.ok =>
               (/\ call.res.err = "InsufficientOutput"
                /\ call.cap < Len(call.input))

\* compress of two or more bytes failing on a buffer that has room for some of them
C13_Witness ==
    /\ call.op = "compress"
    /\ Len(call.input) >= 2
    /\ call.cap > 0
    /\ call.attempts = 1
    /\ ~call.res.ok
    /\ call.res.err = "InsufficientOutput"

\* C14: window bound. After any sequence of encode calls, with slices of any size and
\* any window_size (0 included), the window is at most window_size bytes long.
C14_WindowBound == Len(encoder.window) <= encoder.window_size

\* a slice longer than a window of one byte or more, passed after earlier slices
C14_Witness ==
    /\ partCall.op = "encode"
    /\ encoder.window_size > 0
    /\ Len(partCall.input) > encoder.window_size
    /\ Len(passed) > Len(partCall.input)

\* the last n bytes of s
LastBytes(s, n) == SubSeq(s, Len(s) - n + 1, Len(s))

\* C15: the window is the FIFO suffix of the history: after any sequence of encode
\* calls it is the last min(N, window_size) bytes, in order, of the N bytes passed to
\* encode since construction.
C15_WindowIsSuffix ==
    encoder.window = LastBytes(passed, Min(Len(passed), encoder.window_size))

\* a window of one byte or more that evicted bytes of an earlier call and still holds
\* bytes of it
C15_Witness ==
    /\ partCall.op = "encode"
    /\ partCall.input # <<>>
    /\ Len(passed) > encoder.window_size
    /\ encoder.window_size > Len(partCall.input)

\* C16: literal-only fallback. With window_size = 0 or max_chain_length = 0, encode
\* returns Ok with one Literal token per input byte, in input order, and no Match.
C16_LiteralOnlyFallback ==
    (/\ partCall.op = "encode"
     /\ (encoder.window_size = 0 \/ encoder.max_chain_length = 0)) =>
        /\ partCall.res.ok
        /\ partCall.tokens = [i \in 1..Len(partCall.input) |-> Literal(partCall.input[i])]

\* with max_chain_length = 0 and a window that holds history, a slice of three or more
\* bytes that repeats the byte before it
C16_Witness ==
    /\ partCall.op = "encode"
    /\ encoder.max_chain_length = 0
    /\ encoder.window_size > Len(passed)
    /\ Len(partCall.input) >= 3
    /\ Len(passed) > Len(partCall.input)
    /\ \A i \in 1..Len(passed) : passed[i] = passed[1]

\* s is a prefix of t
IsPrefix(s, t) == Len(s) <= Len(t) /\ SubSeq(t, 1, Len(s)) = s

\* C17: prefix-code property. The code of a symbol (a literal byte, or the match marker
\* with its length and distance fields) is not a prefix of the code of a different
\* symbol; the code of Literal(0xff) is not a prefix of the code of a Match.
C17_PrefixCode ==
    (partCall.op = "huffman" /\ partCall.a # partCall.b) =>
        ~IsPrefix(partCall.codeA, partCall.codeB)

\* C18: two Match tokens with 3 <= length <= 258 and 1 <= distance <= 32768 that
\* differ in length or distance are encoded differently.
C18_MatchFieldsKept ==
    (/\ partCall.op = "huffman"
     /\ partCall.a.kind = "Match"
     /\ partCall.b.kind = "Match"
     /\ partCall.a # partCall.b) =>
        partCall.codeA # partCall.codeB

\* the low n bits of a u32, least-significant first, as a sequence of 0 and 1
BitSeq(bits, n) == [i \in 1..n |-> IF (i - 1) \in bits THEN 1 ELSE 0]

RECURSIVE ByteBitsOf(_)
ByteBitsOf(bytes) ==
    IF bytes = <<>> THEN <<>>
    ELSE BitSeq(U32FromByte(Head(bytes)), ByteBits) \o ByteBitsOf(Tail(bytes))

\* the bit stream a BitWriter holds: the queued bytes, then the pending bits
BitStream(bw) == ByteBitsOf(bw.output) \o BitSeq(bw.bit_buffer, bw.bit_count)

\* C20: write_bits is lossless for every width up to 32. For every width in 0..32,
\* every value and every pending bit count in 0..7 it returns Ok and appends exactly
\* the low `width` bits of value, least-significant first, after the pending bits,
\* with every complete byte moved to the output queue.
C20_WriteBitsLossless ==
    (partCall.op = "write_bits" /\ partCall.num_bits <= U32Bits) =>
        /\ partCall.res.ok
        /\ BitStream(writer) = BitStream(partCall.pre) \o BitSeq(partCall.value,
                                                                partCall.num_bits)
        /\ writer.bit_count < ByteBits

\* C21: bit accumulator invariant. After every BitWriter operation (write_bits,
\* write_byte, flush, write_to_buffer), whatever it returned, the pending bit count is
\* in 0..7 and the accumulator has no bit set at or above the pending bit count.
C21_AccumulatorInvariant ==
    /\ writer.bit_count \in 0..(ByteBits - 1)
    /\ writer.bit_buffer \subseteq 0..(writer.bit_count - 1)

\* a write_to_buffer call that failed, made with bits pending
C21_Witness ==
    /\ partCall.op = "write_to_buffer"
    /\ ~partCall.res.ok
    /\ partCall.pre.bit_count > 0
    /\ partCall.pre.bit_buffer # {}

\* C22, as claimed: every call to flush() appends exactly one byte to the output queue,
\* also when no bits are pending, and leaves the pending bit count at 0.
C22_FlushForcesByte ==
    partCall.op = "flush" =>
        /\ Len(writer.output) = Len(partCall.pre.output) + 1
        /\ writer.bit_count = 0

\* C22, amended: flush() returns Ok and leaves the pending bit count at 0 and the
\* accumulator empty; with bits pending it appends exactly one byte, the pending bits
\* padded with zero bits, and with no bits pending it appends nothing.
C22_FlushPadsPending ==
    partCall.op = "flush" =>
        /\ partCall.res.ok
        /\ writer.bit_count = 0
        /\ writer.bit_buffer = {}
        /\ IF partCall.pre.bit_count > 0
           THEN /\ Len(writer.output) = Len(partCall.pre.output) + 1
                /\ BitStream(writer) =
                       BitStream(partCall.pre)
                           \o [i \in 1..(ByteBits - partCall.pre.bit_count) |-> 0]
           ELSE writer.output = partCall.pre.output

\* a flush made with bits pending, some of them set
C22_Witness ==
    /\ partCall.op = "flush"
    /\ partCall.pre.bit_count > 0
    /\ partCall.pre.bit_buffer # {}
    /\ Len(writer.output) = 1

\* C23: compress_timed always returns. For every input, buffer, finish flag, time limit
\* and clock, a clock that never advances included, it returns after at most one slice
\* attempt, and it reads the elapsed time before that attempt: it makes no attempt and
\* returns TimeoutExceeded exactly when the first reading has reached the limit.
C23_TimedReturns ==
    call.op = "compress_timed" =>
        /\ call.res.err # "Running"
        /\ call.attempts <= 1
        /\ call.attempts = 0 <=> Head(call.clock) >= call.time_limit
        /\ call.attempts = 0 <=> call.res = Err("TimeoutExceeded")

\* a call that failed on its one attempt under a clock that stays below the limit
C23_Witness ==
    /\ call.op = "compress_timed"
    /\ call.active
    /\ \A i \in 1..Len(call.clock) : call.clock[i] < call.time_limit
    /\ call.attempts = 1
    /\ ~call.res.ok

\* C24: one-shot decompress terminates with a value. For every input and buffer size
\* it returns, after a bounded number of slice calls and without slicing outside input
\* or output, Ok(input.len()) with output[..input.len()] holding the input when
\* output.len() >= input.len(), and Err(InsufficientOutput) otherwise.
C24_DecompressReturns ==
    call.op = "decompress" =>
        /\ call.attempts <= Len(call.input) + 1
        /\ call.res.err # "Panic"
        /\ IF call.cap >= Len(call.input)
           THEN /\ call.res = Ok1(Len(call.input))
                /\ SubSeq(call.out, 1, Len(call.input)) = call.input
           ELSE call.res = Err("InsufficientOutput")

\* decompress of two or more bytes into a buffer of exactly the input's length
C24_Witness ==
    /\ call.op = "decompress"
    /\ ~call.chained
    /\ Len(call.input) >= 2
    /\ call.cap = Len(call.input)
    /\ call.res.ok

\* the bytes the entropy coder produces for a slice handed to the session
EncodedFor(st, input) == HuffmanEncode(Lz77Encode(st.lz77, input).tokens).bytes

\* C25: exact failure condition. On an Active session compress_trickle returns
\* Err(InsufficientOutput) exactly when the bytes pending in the bit writer's output
\* queue plus the bytes encoded for the slice exceed output.len(); it returns no other
\* error and succeeds otherwise.
C25_ExactFailureCondition ==
    [][(call'.op = "compress_trickle" /\ ~state.finished)
       => (/\ call'.res.ok \/ call'.res = Err("InsufficientOutput")
           /\ ~call'.res.ok <=>
                  Len(state.bit_writer.output) + Len(EncodedFor(state, call'.input))
                      > call'.cap)]_vars

\* a slice that fits the buffer by itself and fails on the bytes already pending
C25_Witness ==
    /\ call.op = "compress_trickle"
    /\ call.active
    /\ call.input # <<>>
    /\ call.cap >= Len(call.input)
    /\ ~call.res.ok
    /\ Len(state.bit_writer.output) > Len(call.input)

SliceCalls == {"compress_trickle", "compress_timed"}

\* C26: finish happens only on success. The session becomes Finished only through a
\* compress_trickle or compress_timed call that returns Ok with finish=true; on an
\* Active session a call with finish=true that returns an error (InsufficientOutput,
\* TimeoutExceeded) leaves it Active, and so does a successful call with finish=false.
C26_FinishOnlyOnSuccess ==
    [][/\ (~state.finished /\ state'.finished)
            => (call'.op \in SliceCalls /\ call'.res.ok /\ call'.finish)
       /\ (~state.finished /\ call'.op \in SliceCalls /\ call'.finish /\ ~call'.res.ok)
            => (/\ ~state'.finished
                /\ call'.res.err \in {"InsufficientOutput", "TimeoutExceeded"})
       /\ (~state.finished /\ call'.op \in SliceCalls /\ call'.finish /\ call'.res.ok)
            => state'.finished
       /\ (~state.finished /\ call'.op \in SliceCalls /\ ~call'.finish)
            => ~state'.finished]_vars

\* a compress_timed call with finish=true that made its attempt and failed for lack
\* of output space, the session still Active after it
C26_Witness ==
    /\ call.op = "compress_timed"
    /\ call.active
    /\ call.finish
    /\ call.attempts = 1
    /\ ~call.res.ok
    /\ call.res.err = "InsufficientOutput"
    /\ ~state.finished

\* C27: output buffer frame. A successful slice call changes only output[..written]
\* and leaves output[written..] as it was; a call that returns an error
\* (InsufficientOutput, TimeoutExceeded) and the no-op on a Finished session leave the
\* caller's whole buffer as it was.
C27_OutputFrame ==
    call.op \in SliceCalls =>
        /\ Len(call.out) = call.cap
        /\ (call.res.ok /\ call.active) =>
               (/\ call.res.written <= call.cap
                /\ \A i \in (call.res.written + 1)..call.cap : call.out[i] = FillByte)
        /\ (~call.res.ok \/ ~call.active) => call.out = Buffer(call.cap)

\* a call that failed with room in the buffer for part of what was pending
C27_Witness ==
    /\ call.op = "compress_trickle"
    /\ call.active
    /\ ~call.res.ok
    /\ call.cap > 0
    /\ Len(state.bit_writer.output) > call.cap
    /\ call.out = Buffer(call.cap)

====
